---- MODULE Spec2Model ----
(***************************************************************************)
(* Model of the addon repository generator.  The repository holds two      *)
(* drafts of the same script:                                              *)
(*   _repo_generator.py  the complete pipeline (discover, zip, fold the    *)
(*                       manifest into addons.xml, write addons.xml.md5);  *)
(*   repo_generator.py   a later draft whose _create_zip skips existing    *)
(*                       archives and filters file names, and whose        *)
(*                       _generate_addons_file only loads addons.xml and   *)
(*                       returns True.                                     *)
(* Each invocation runs one of the two scripts over the same release roots; *)
(* the variable `variant` says which.                                      *)
(*                                                                         *)
(* File and directory names are sequences of one-character strings, so     *)
(* that startswith / endswith / lower / `in` are computed as Python does.  *)
(* File contents are sequences of numbers ("bytes").                       *)
(***************************************************************************)
EXTENDS Integers, Sequences, FiniteSets, TLC

\* ------------------------------------------------------------------ bounds
MaxRuns == 2        \* invocations of the script
MaxEvents == 1      \* things the environment does: an edit of an addon folder
                    \* between invocations, an I/O operation that fails
MaxVersion == 2     \* manifest versions 1..MaxVersion

\* --------------------------------------------------------------- constants
KODI_VERSIONS == <<"krypton", "leia", "matrix", "omega", "repo">>

IGNORE ==
  << <<".","g","i","t">>,
     <<".","g","i","t","h","u","b">>,
     <<".","g","i","t","i","g","n","o","r","e">>,
     <<".","D","S","_","S","t","o","r","e">>,
     <<"t","h","u","m","b","s",".","d","b">>,
     <<".","i","d","e","a">>,
     <<"v","e","n","v">> >>

VariantFull == "_repo_generator"
VariantDraft == "repo_generator"

\* ------------------------------------------------------- string primitives
Range(s) == { s[i] : i \in DOMAIN s }

\* str.startswith
startswith(s, p) == Len(p) <= Len(s) /\ SubSeq(s, 1, Len(p)) = p

\* str.endswith
endswith(s, p) == Len(p) <= Len(s) /\ SubSeq(s, Len(s) - Len(p) + 1, Len(s)) = p

\* p in s, for strings
contains(s, p) == \E k \in 1..(Len(s) + 1) : k + Len(p) - 1 <= Len(s) /\ SubSeq(s, k, k + Len(p) - 1) = p

UpperCase == <<"A","B","C","D","E","F","G","H","I","J","K","L","M","N","O","P","Q","R","S","T","U","V","W","X","Y","Z">>
LowerCase == <<"a","b","c","d","e","f","g","h","i","j","k","l","m","n","o","p","q","r","s","t","u","v","w","x","y","z">>

\* str.lower
lower(s) == [ i \in DOMAIN s |->
                IF \E k \in DOMAIN UpperCase : UpperCase[k] = s[i]
                  THEN LowerCase[CHOOSE k \in DOMAIN UpperCase : UpperCase[k] = s[i]]
                  ELSE s[i] ]

\* ------------------------------------------------------- addon directories
\* A file of an addon directory is its path relative to the directory: the
\* names of the directories above it, then its own name.
DirsOf(path) == SubSeq(path, 1, Len(path) - 1)
NameOf(path) == path[Len(path)]

F_a_txt == << <<"a",".","t","x","t">> >>
F_git_x == << <<".","g","i","t">>, <<"x">> >>
F_pycache_y == << <<"_","_","p","y","c","a","c","h","e","_","_">>, <<"y",".","p","y","c">> >>
F_gitignore == << <<".","g","i","t","i","g","n","o","r","e">> >>
F_lib_venv_z == << <<"l","i","b">>, <<"v","e","n","v">>, <<"z",".","p","y">> >>
F_lib_m == << <<"l","i","b">>, <<"m",".","p","y">> >>
F_venv_txt == << <<"v","e","n","v","s",".","t","x","t">> >>
F_M_PYC == << <<"l","i","b">>, <<"M",".","P","Y","C">> >>

\* The directory trees an addon folder may hold.
TreePlain == { F_a_txt, F_git_x, F_pycache_y }
TreeDotFiles == { F_a_txt, F_gitignore, F_lib_venv_z, F_lib_m, F_venv_txt, F_M_PYC }
Trees == { TreePlain, TreeDotFiles }

\* _remove_binaries, on one directory tree: every file whose lowered name ends
\* in pyo or pyc is removed, and every directory whose lowered name contains
\* "pycache" is removed with all it holds.
IsCompiled(path) ==
  \/ endswith(lower(NameOf(path)), <<"p","y","o">>)
  \/ endswith(lower(NameOf(path)), <<"p","y","c">>)
  \/ \E d \in Range(DirsOf(path)) : contains(lower(d), <<"p","y","c","a","c","h","e">>)

RemoveBinaries(tree) == { p \in tree : ~IsCompiled(p) }

\* os.walk with `dirs.remove(i)` for every i of IGNORE: a directory named in
\* IGNORE is not descended into.
UnderIgnoredDir(path) == \E d \in Range(DirsOf(path)) : d \in Range(IGNORE)

\* files = [f for f in files if not f.startswith(i)], for every i of IGNORE
IgnoredName(path) == \E i \in Range(IGNORE) : startswith(NameOf(path), i)

\* The entries _create_zip of _repo_generator.py writes: archive name
\* <folder>/<relative path> for every file the walk reaches.
ZipEntriesFull(folder, tree) ==
  { [top |-> folder, rel |-> p] : p \in { q \in tree : ~UnderIgnoredDir(q) } }

\* The entries _create_zip of repo_generator.py writes.
ZipEntriesDraft(folder, tree) ==
  { [top |-> folder, rel |-> p] : p \in { q \in tree : ~UnderIgnoredDir(q) /\ ~IgnoredName(q) } }

\* ------------------------------------------------------------- addons.xml
FolderNames == <<"apple", "banana", "cherry">>
Ids == { "apple", "banana" }

\* utf-8 encoding of an addon id, as one number
IdCode(id) == CHOOSE i \in DOMAIN FolderNames : FolderNames[i] = id

\* ElementTree.write(encoding="utf-8", xml_declaration=True): the declaration,
\* the root's start tag, one element per entry, the root's end tag.
RECURSIVE SerializeEntries(_)
SerializeEntries(doc) ==
  IF doc = <<>> THEN <<>>
  ELSE <<3, IdCode(doc[1].id), doc[1].version>> \o SerializeEntries(Tail(doc))

Serialize(doc) == <<1, 2>> \o SerializeEntries(doc) \o <<4>>

\* ElementTree.parse: fails (ParseError) on anything that is not a document.
WellFormed(bytes) ==
  /\ Len(bytes) >= 3
  /\ ((Len(bytes) - 3) % 3) = 0
  /\ bytes[1] = 1 /\ bytes[2] = 2 /\ bytes[Len(bytes)] = 4
  /\ \A k \in 0..(((Len(bytes) - 3) \div 3) - 1) :
       /\ bytes[3 + 3 * k] = 3
       /\ bytes[4 + 3 * k] \in DOMAIN FolderNames

Parse(bytes) ==
  [ k \in 1..((Len(bytes) - 3) \div 3) |->
      [id |-> FolderNames[bytes[1 + 3 * k]], version |-> bytes[2 + 3 * k]] ]

\* hashlib.md5(...).hexdigest(): the digest is modelled 16 bits wide, written
\* as four lowercase hexadecimal digits.
RECURSIVE Digest(_, _)
Digest(bytes, h) ==
  IF bytes = <<>> THEN h
  ELSE Digest(Tail(bytes), ((h * 31) + bytes[1] + 7) % 65536)

HexDigits == <<"0","1","2","3","4","5","6","7","8","9","a","b","c","d","e","f">>

hexdigest(bytes) ==
  LET h == Digest(bytes, 5381)
  IN << HexDigits[((h \div 4096) % 16) + 1], HexDigits[((h \div 256) % 16) + 1],
        HexDigits[((h \div 16) % 16) + 1], HexDigits[(h % 16) + 1] >>

\* ------------------------------------------------------------------ state
VARIABLES
  variant,      \* the script that is running: VariantFull or VariantDraft
  roots,        \* the release roots of KODI_VERSIONS that exist
  addons,       \* addons[r][f]: folder f of root r: its addon.xml and its files
  zipsDir,      \* zipsDir[r]: r/zips exists
  zips,         \* zips[r][<<id, version>>]: r/zips/<id>/<id>-<version>.zip
  meta,         \* meta[r][id]: r/zips/<id>/addon.xml, copied by _copy_meta_files
  index,        \* index[r]: r/zips/addons.xml
  md5,          \* md5[r]: r/zips/addons.xml.md5
  pc,           \* where the process is
  queue,        \* the releases the main loop has still to visit, current first
  addons_root,  \* the in-memory index document of the current Generator
  folders,      \* the discovered addon folders, in os.listdir order
  next,         \* position of the for loop in folders
  changed,      \* the flag of _generate_addons_file
  log,          \* the errors printed in this run: the folder and the stage
  io,           \* what became of this run's writes of addons.xml and the md5
  synced,       \* synced[r]: a run over r ended without failure, no edit since
  clock,        \* number of invocations so far (also the files' mtime)
  events        \* number of edits and of failed I/O operations so far

vars == << variant, roots, addons, zipsDir, zips, meta, index, md5, pc, queue,
           addons_root, folders, next, changed, log, io, synced, clock, events >>

fsvars == << addons, zipsDir, zips, meta, index, md5 >>
runvars == << addons_root, folders, next, changed, log, io >>

NoFile == [exists |-> FALSE, bytes |-> <<>>]
File(bytes) == [exists |-> TRUE, bytes |-> bytes]

NoManifest == [kind |-> "none", id |-> "", version |-> 0]
Malformed == [kind |-> "bad", id |-> "", version |-> 0]
Manifest(id, version) == [kind |-> "ok", id |-> id, version |-> version]
\* What the addon.xml of folder f may be edited to.
ManifestsFor(f) ==
  { Manifest(f, v) : v \in 1..MaxVersion } \cup { Manifest(id, 1) : id \in Ids }
    \cup { Malformed, NoManifest }

NoIo == [index |-> "none", md5 |-> "none"]

\* What an I/O operation may come to: failures are counted against MaxEvents.
Outcomes == IF events < MaxEvents THEN { "ok", "denied", "truncated" } ELSE { "ok" }
Successes == IF events < MaxEvents THEN { TRUE, FALSE } ELSE { TRUE }
Failed(n) == events' = events + n

\* The release roots that exist, and the addon folders each holds: one root
\* with two addons, or two roots (and a missing one between) with one each.
RootChoices == { { "leia" }, { "krypton", "matrix" } }
RootFolders ==
  [ r \in { "leia", "krypton", "matrix" } |->
      CASE r = "leia" -> { "apple", "banana" }
        [] r = "krypton" -> { "banana" }
        [] r = "matrix" -> { "apple" } ]

\* The release directory before the first invocation: every folder holds a
\* manifest naming the folder, at version 1, and nothing is built yet.
Init ==
  /\ variant = "none"
  /\ roots \in RootChoices
  /\ addons = [ r \in roots |-> [ f \in RootFolders[r] |->
                  [manifest |-> Manifest(f, 1), tree |-> TreePlain] ] ]
  /\ zipsDir = [ r \in roots |-> FALSE ]
  /\ zips = [ r \in roots |-> <<>> ]
  /\ meta = [ r \in roots |-> <<>> ]
  /\ index = [ r \in roots |-> NoFile ]
  /\ md5 = [ r \in roots |-> NoFile ]
  /\ pc = "idle"
  /\ queue = <<>>
  /\ addons_root = <<>>
  /\ folders = <<>>
  /\ next = 1
  /\ changed = FALSE
  /\ log = <<>>
  /\ io = NoIo
  /\ synced = [ r \in roots |-> FALSE ]
  /\ clock = 0
  /\ events = 0

cur == Head(queue)

\* ------------------------------------------------------------ environment
\* Somebody rewrites, breaks, removes or restores the addon.xml of a folder.
EditManifest ==
  /\ pc \in { "idle", "crashed" }
  /\ events < MaxEvents
  /\ \E r \in roots : \E f \in DOMAIN addons[r] : \E m \in ManifestsFor(f) :
       /\ m # addons[r][f].manifest
       /\ addons' = [addons EXCEPT ![r][f].manifest = m]
       /\ synced' = [synced EXCEPT ![r] = FALSE]
  /\ events' = events + 1
  /\ UNCHANGED << variant, roots, zipsDir, zips, meta, index, md5, pc, queue,
                  addons_root, folders, next, changed, log, io, clock >>

\* Somebody changes the files of a folder.
EditTree ==
  /\ pc \in { "idle", "crashed" }
  /\ events < MaxEvents
  /\ \E r \in roots : \E f \in DOMAIN addons[r], t \in Trees :
       /\ t # addons[r][f].tree
       /\ addons' = [addons EXCEPT ![r][f].tree = t]
       /\ synced' = [synced EXCEPT ![r] = FALSE]
  /\ events' = events + 1
  /\ UNCHANGED << variant, roots, zipsDir, zips, meta, index, md5, pc, queue,
                  addons_root, folders, next, changed, log, io, clock >>

\* ---------------------------------------------------------------- __main__
\* for release in [r for r in KODI_VERSIONS if os.path.exists(r)]
ExistingReleases == SelectSeq(KODI_VERSIONS, LAMBDA r : r \in roots)

Main ==
  /\ pc \in { "idle", "crashed" }
  /\ clock < MaxRuns
  /\ clock' = clock + 1
  /\ variant' \in { VariantFull, VariantDraft }
  /\ queue' = ExistingReleases
  /\ pc' = "init"
  /\ UNCHANGED << roots, fsvars, runvars, synced, events >>

\* ------------------------------------------------------ Generator.__init__
\* One run of _remove_binaries over a folder of the release root.  (A removal
\* that fails is printed and skipped; the removals are taken to succeed.)
Cleaned(folderState) == [folderState EXCEPT !.tree = RemoveBinaries(@)]

\* self.zips_path is created and _remove_binaries runs.
GeneratorInit ==
  /\ pc = "init"
  /\ zipsDir' = [zipsDir EXCEPT ![cur] = TRUE]
  /\ addons' = [addons EXCEPT ![cur] = [ f \in DOMAIN addons[cur] |-> Cleaned(addons[cur][f]) ]]
  /\ pc' = "load"
  /\ UNCHANGED << variant, roots, zips, meta, index, md5, queue, runvars, synced, clock,
                  events >>

\* --------------------------------------------------- _generate_addons_file
\* The folders of the release root that qualify: directories other than
\* zips, not hidden, holding an addon.xml.  (The roots modelled hold only
\* visible directories, so the addon.xml test is the one that decides.)
Qualifying(r) == { f \in DOMAIN addons[r] : addons[r][f].manifest.kind # "none" }

\* os.listdir gives the entries in arbitrary order.
Orders(S) ==
  { s \in [1..Cardinality(S) -> S] : \A a, b \in 1..Cardinality(S) : a # b => s[a] # s[b] }

Discover(r) == Orders(Qualifying(r))

\* The document _generate_addons_file starts from.
LoadedDoc(file) == IF file.exists THEN Parse(file.bytes) ELSE <<>>

\* addons.xml is parsed when it exists; an unparsable file raises out of the
\* constructor and out of the main loop.  The full script then lists the
\* folders; the draft returns True at once.
LoadIndex ==
  /\ pc = "load"
  /\ IF index[cur].exists /\ ~WellFormed(index[cur].bytes)
       THEN /\ pc' = "crashed"
            /\ UNCHANGED << addons_root, folders >>
       ELSE /\ addons_root' = LoadedDoc(index[cur])
            /\ IF variant = VariantFull
                 THEN /\ folders' \in Discover(cur)
                      /\ pc' = IF folders' = <<>> THEN "persist" ELSE "loop"
                 ELSE /\ folders' = <<>>
                      /\ pc' = "md5"
  /\ UNCHANGED << variant, roots, fsvars, queue, next, changed, log, io, synced, clock, events >>

\* Faulty path: the archive is put under the folder's name instead of the id.
final_zip_ByFolder(folder, addon_id, version) == << folder, version >>

\* zips/<addon_id>/<addon_id>-<version>.zip
final_zip(folder, addon_id, version) == << addon_id, version >>

Archive(entries, now) == [entries |-> entries, mtime |-> now, complete |-> TRUE]
\* ZipFile(final_zip, "w") has truncated the file and a later write raised.
Partial(now) == [entries |-> {}, mtime |-> now, complete |-> FALSE]

\* _create_zip of _repo_generator.py: the archive is always opened for
\* writing.  outcome "denied": makedirs or the open raises, nothing written.
CreateZipFull(archives, folder, tree, addon_id, version, outcome, now) ==
  CASE outcome = "ok" ->
         (final_zip(folder, addon_id, version) :> Archive(ZipEntriesFull(folder, tree), now)) @@ archives
    [] outcome = "truncated" ->
         (final_zip(folder, addon_id, version) :> Partial(now)) @@ archives
    [] OTHER -> archives

\* _create_zip of repo_generator.py: nothing is done when the archive exists.
CreateZipDraft(archives, folder, tree, addon_id, version, outcome, now) ==
  IF final_zip(folder, addon_id, version) \in DOMAIN archives THEN archives
  ELSE CASE outcome = "ok" ->
              (final_zip(folder, addon_id, version) :> Archive(ZipEntriesDraft(folder, tree), now)) @@ archives
         [] outcome = "truncated" ->
              (final_zip(folder, addon_id, version) :> Partial(now)) @@ archives
         [] OTHER -> archives

\* The element a manifest puts into the index.
EntryOf(manifest) == [id |-> manifest.id, version |-> manifest.version]

\* Faulty fold: the manifest is appended even when _create_zip raised.
Fold_Always(doc, manifest, raised) == Append(doc, EntryOf(manifest))

\* addons_root.append(addon_root) is reached only when _create_zip returned.
Fold(doc, manifest, raised) == IF raised THEN doc ELSE Append(doc, EntryOf(manifest))

\* _copy_meta_files copies addon.xml next to the archive; its errors are
\* caught inside it.
CopyMeta(copies, manifest, copied) ==
  IF copied THEN (manifest.id :> manifest.version) @@ copies ELSE copies

\* One pass of `for addon in folders`.
ProcessAddon ==
  /\ pc = "loop"
  /\ LET f == folders[next]
         m == addons[cur][f].manifest
     IN IF m.kind = "bad"
          THEN /\ log' = Append(log, [folder |-> f, stage |-> "parse"])
               /\ UNCHANGED << zips, meta, addons_root, changed, events >>
          ELSE /\ changed' = TRUE
               /\ \E outcome \in Outcomes, copied \in Successes :
                    /\ outcome = "ok" \/ copied
                    /\ Failed(IF outcome = "ok" /\ copied THEN 0 ELSE 1)
                    /\ zips' = [zips EXCEPT ![cur] =
                         CreateZipFull(@, f, addons[cur][f].tree, m.id, m.version, outcome, clock)]
                    /\ meta' = [meta EXCEPT ![cur] =
                         IF outcome = "ok" THEN CopyMeta(@, m, copied) ELSE @]
                    /\ addons_root' = Fold(addons_root, m, outcome # "ok")
                    /\ log' = CASE outcome # "ok" -> Append(log, [folder |-> f, stage |-> "zip"])
                                [] ~copied -> Append(log, [folder |-> f, stage |-> "meta"])
                                [] OTHER -> log
  /\ next' = next + 1
  /\ pc' = IF next' > Len(folders) THEN "persist" ELSE "loop"
  /\ UNCHANGED << variant, roots, addons, zipsDir, index, md5, queue, folders, io,
                  synced, clock >>

\* open(path, "w") then write: the write succeeds, or the open raises and
\* the file is as it was, or the file is truncated and a write raises.
WriteFile(old, bytes, outcome) ==
  CASE outcome = "ok" -> File(bytes)
    [] outcome = "truncated" -> File(<<>>)
    [] OTHER -> old

\* Faulty handling: the exception of a failed write is not caught.
AfterIndexWrite_Escapes(outcome) == IF outcome = "ok" THEN "md5" ELSE "crashed"

\* Where _generate_addons_file goes after addons_xml.write: it returns
\* `changed`, or the exception is caught and it returns None.
AfterIndexWrite(outcome) == IF outcome = "ok" THEN "md5" ELSE "end"

\* if changed: addons_xml.write(...)
WriteIndex ==
  /\ pc = "persist"
  /\ IF changed
       THEN \E outcome \in Outcomes :
              /\ index' = [index EXCEPT ![cur] = WriteFile(@, Serialize(addons_root), outcome)]
              /\ io' = [io EXCEPT !.index = outcome]
              /\ pc' = AfterIndexWrite(outcome)
              /\ Failed(IF outcome = "ok" THEN 0 ELSE 1)
       ELSE /\ pc' = "end"
            /\ UNCHANGED << index, io, events >>
  /\ UNCHANGED << variant, roots, addons, zipsDir, zips, meta, md5, queue, addons_root,
                  folders, next, changed, log, synced, clock >>

\* ------------------------------------------------------ _generate_md5_file
\* Faulty digest: the digest is taken of the document without its XML declaration.
Md5Text_NoDeclaration(indexFile) == hexdigest(Tail(indexFile.bytes))

\* The text written to addons.xml.md5: the digest of what is read back from
\* addons.xml.
Md5Text(indexFile) == hexdigest(indexFile.bytes)

\* Reading a missing addons.xml raises; that and a failed write are caught
\* (in the draft the failed write is caught in _save_file).
GenerateMd5 ==
  /\ pc = "md5"
  /\ IF index[cur].exists
       THEN \E outcome \in Outcomes :
              /\ md5' = [md5 EXCEPT ![cur] = WriteFile(@, Md5Text(index[cur]), outcome)]
              /\ io' = [io EXCEPT !.md5 = outcome]
              /\ Failed(IF outcome = "ok" THEN 0 ELSE 1)
       ELSE /\ io' = [io EXCEPT !.md5 = "unreadable"]
            /\ UNCHANGED << md5, events >>
  /\ pc' = "end"
  /\ UNCHANGED << variant, roots, addons, zipsDir, zips, meta, index, queue, addons_root,
                  folders, next, changed, log, synced, clock >>

\* The constructor returns, its locals are gone, and the main loop takes the
\* next release.
Clean == log = <<>> /\ io.index \in { "none", "ok" } /\ io.md5 \in { "none", "ok" }

EndRun ==
  /\ pc = "end"
  /\ synced' = [synced EXCEPT ![cur] = Clean]
  /\ queue' = Tail(queue)
  /\ pc' = IF queue' = <<>> THEN "idle" ELSE "init"
  /\ addons_root' = <<>>
  /\ folders' = <<>>
  /\ next' = 1
  /\ changed' = FALSE
  /\ log' = <<>>
  /\ io' = NoIo
  /\ variant' = IF queue' = <<>> THEN "none" ELSE variant
  /\ UNCHANGED << roots, fsvars, clock, events >>

\* ------------------------------------- _create_zip of repo_generator.py
\* Nothing in repo_generator.py calls _create_zip; it is reached by a call on
\* the Generator the constructor has just built, with the id and version of
\* a folder's manifest.
CallCreateZip ==
  /\ pc = "end"
  /\ variant = VariantDraft
  /\ \E f \in DOMAIN addons[cur], outcome \in Outcomes :
       /\ addons[cur][f].manifest.kind = "ok"
       /\ zips' = [zips EXCEPT ![cur] =
            CreateZipDraft(@, f, addons[cur][f].tree, addons[cur][f].manifest.id,
                           addons[cur][f].manifest.version, outcome, clock)]
       /\ Failed(IF outcome = "ok" THEN 0 ELSE 1)
  /\ UNCHANGED << variant, roots, addons, zipsDir, meta, index, md5, pc, queue, runvars,
                  synced, clock >>

Next ==
  \/ EditManifest
  \/ EditTree
  \/ Main
  \/ GeneratorInit
  \/ LoadIndex
  \/ ProcessAddon
  \/ WriteIndex
  \/ GenerateMd5
  \/ EndRun
  \/ CallCreateZip

Spec == Init /\ [][Next]_vars

\* ================================================================== claims
Running == pc \notin { "idle", "crashed" }

\* The candidates of this run that failed in the manifest read or the archive
\* build, and the entries of those that did not, in processing order.
FailedFolders ==
  { log[k].folder : k \in { j \in DOMAIN log : log[j].stage \in { "parse", "zip" } } }
Survivors == SelectSeq(folders, LAMBDA f : f \notin FailedFolders)
SurvivorEntries == [ k \in DOMAIN Survivors |-> EntryOf(addons[cur][Survivors[k]].manifest) ]
FoldedExactly ==
  /\ next = Len(folders) + 1
  /\ addons_root = LoadedDoc(index[cur]) \o SurvivorEntries

UniqueIds(doc) == \A a, b \in DOMAIN doc : a # b => doc[a].id # doc[b].id

\* C1: every index file holds at most one entry per addon id, and after a run
\* has written the index every entry with the id of a folded manifest equals
\* the manifest folded last for that id.
C1_OneEntryPerId ==
  /\ \A r \in roots :
       (index[r].exists /\ WellFormed(index[r].bytes)) => UniqueIds(Parse(index[r].bytes))
  /\ (pc = "md5" /\ variant = VariantFull) =>
       \A e \in Range(Parse(index[cur].bytes)) :
         \A k \in DOMAIN SurvivorEntries :
           (SurvivorEntries[k].id = e.id
              /\ \A j \in DOMAIN SurvivorEntries : j > k => SurvivorEntries[j].id # e.id)
             => e = SurvivorEntries[k]

\* C2: a run over a release root on which the previous run ended without
\* failure, with no edit of its addon folders since, changes neither the index
\* file nor the checksum file and creates or rewrites no archive.
C2_Idempotent ==
  [][ (Running /\ synced[cur]) =>
        /\ index'[cur] = index[cur]
        /\ md5'[cur] = md5[cur]
        /\ zips'[cur] = zips[cur] ]_vars

C4_PartialFailureIsolation ==
  [][ /\ pc = "loop" => (pc' \in { "loop", "persist" } /\ next' = next + 1 /\ queue' = queue)
      /\ pc' = "persist" => FoldedExactly' ]_vars

C4_Witness ==
  /\ pc = "persist"
  /\ FailedFolders # {}
  /\ Len(addons_root) > Len(LoadedDoc(index[cur]))

\* C5: when every discovered candidate's manifest equals the entry the loaded
\* index holds for its id, the Persist step writes neither the index file nor
\* the checksum file.
NothingNew ==
  /\ index[cur].exists
  /\ \A f \in Range(folders) :
       /\ addons[cur][f].manifest.kind = "ok"
       /\ \E e \in Range(LoadedDoc(index[cur])) : e.id = addons[cur][f].manifest.id
       /\ \A e \in Range(LoadedDoc(index[cur])) :
            e.id = addons[cur][f].manifest.id => e = EntryOf(addons[cur][f].manifest)

C5_NoWriteWhenUnchanged ==
  [][ (pc = "persist" /\ NothingNew) => (pc' = "end" /\ index' = index /\ md5' = md5) ]_vars

\* C6: an archive, once it exists for an id and a version, is never written
\* again.
C6_NeverOverwritten ==
  [][ \A r \in roots : \A key \in DOMAIN zips[r] :
        key \in DOMAIN zips'[r] /\ zips'[r][key] = zips[r][key] ]_vars

\* C7: a failure of the index write or of the checksum write is caught: the
\* run goes to its end without the failed file being updated (it keeps its
\* content or is left empty by the failed write), nothing is written after a
\* failed index write, and from the end of a run the main loop goes on to the
\* next release root of its list.
NotUpdated(old, new) == new = old \/ new = File(<<>>)

C8_SortedById ==
  \A r \in roots :
    (index[r].exists /\ WellFormed(index[r].bytes)) =>
      \A a, b \in DOMAIN Parse(index[r].bytes) :
        a < b => IdCode(Parse(index[r].bytes)[a].id) <= IdCode(Parse(index[r].bytes)[b].id)

\* C9: a newly built archive holds exactly the files of the addon directory
\* that have no ancestor directory named in the ignore set and no name that
\* starts with an ignored name, each under <folder>/<relative path>, and no
\* file of a __pycache__ directory.
ClaimedEntries(folder, tree) ==
  { [top |-> folder, rel |-> p] :
      p \in { q \in tree :
                /\ \A k \in 1..(Len(q) - 1) : q[k] \notin Range(IGNORE)
                /\ \A n \in Range(IGNORE) : ~startswith(q[Len(q)], n) } }

Built(r, key) ==
  /\ zips'[r][key].complete
  /\ key \notin DOMAIN zips[r] \/ zips[r][key] # zips'[r][key]

C9_ArchiveContent ==
  [][ \A r \in roots : \A key \in DOMAIN zips'[r] :
        Built(r, key) =>
          /\ \E f \in DOMAIN addons[r] :
               zips'[r][key].entries = ClaimedEntries(f, addons[r][f].tree)
          /\ \A e \in zips'[r][key].entries :
               \A k \in 1..(Len(e.rel) - 1) :
                 e.rel[k] # <<"_","_","p","y","c","a","c","h","e","_","_">> ]_vars

AddedEntries ==
  { addons_root[k] : k \in (Len(LoadedDoc(index[cur])) + 1)..Len(addons_root) }

ZipFailures == Cardinality({ k \in DOMAIN log : log[k].stage \in { "parse", "zip" } })

\* A pass of the loop that adds an entry adds exactly one, has just written
\* the whole archive of its id and version, and has reported no failure.
FoldStep ==
  (pc = "loop" /\ addons_root' # addons_root) =>
    LET e == addons_root'[Len(addons_root')]
    IN /\ addons_root' = Append(addons_root, e)
       /\ << e.id, e.version >> \in DOMAIN zips'[cur]
       /\ zips'[cur][<< e.id, e.version >>].complete
       /\ zips'[cur][<< e.id, e.version >>].mtime = clock
       /\ \A k \in DOMAIN log' : k > Len(log) => log'[k].stage = "meta"

\* Every entry added so far has a file at zips/<id>/<id>-<version>.zip, and
\* every candidate processed so far has either failed or added one entry.
ArchivesPresent ==
  (variant = VariantFull /\ pc \in { "loop", "persist" }) =>
    /\ \A e \in AddedEntries : << e.id, e.version >> \in DOMAIN zips[cur]
    /\ ZipFailures + Len(addons_root) - Len(LoadedDoc(index[cur])) = next - 1

\* C10: within a run of the full script, a manifest is added to the
\* in-memory index only in a pass whose archive build for its id and version
\* has completed; a candidate whose manifest read or archive build failed
\* adds nothing; so while the candidates are processed and when the index is
\* persisted, every entry the run has added has its archive file present at
\* zips/<id>/<id>-<version>.zip.
C10_ArchiveBeforeFold == []ArchivesPresent /\ [][FoldStep]_vars

C10_Witness ==
  /\ pc = "persist"
  /\ \E k \in DOMAIN log : log[k].stage = "zip"
  /\ AddedEntries # {}

====
